---- MODULE Spec2Model ----
(***************************************************************************)
(* The loop recorder of the DR-16 sampler: the Recorder component and the  *)
(* part of the Sampler component that captures pad hits.                   *)
(*                                                                         *)
(* Time is in milliseconds.  The clock is kept relative: a timer holds the *)
(* time left until it is due, and a *StartTimeRef variable holds           *)
(* Date.now() minus the value stored in the ref (saturating at AgeCap).    *)
(* A callback reads the props and state of the render that created it, so  *)
(* every timer carries the values its callback closes over (env).          *)
(***************************************************************************)
EXTENDS Integers, Sequences, FiniteSets, TLC

\* ---- inputs and bounds -------------------------------------------------
BpmSet == {120, 200}
BarsSet == {8, 16}
CountInSet == {0, 1, 2}
PadIds == {0}
UserDelays == {4000, 15999}
LoopPadIds == {0, 1}
KeyPadIds == {0, 1, 2}
Keys == {"Q", "W", "E", "X"}
LoopDelays == {500}
Delays3D == {4000}
BeatDelays == {500}
PositionBpmSet == 120..200
PositionDelays == {500, 4000}
CountInBpmSet == {90, 120}
MaxHits == 2
MaxTimers == 5
MaxCommands == 5
MaxLoops == 2

\* ---- program constants -------------------------------------------------
BeatsPerBar == 4
PollMs == 16
RestartDelayMs == 50
\* the period of the position polls of DrumMachine3D
PollMs3D == 50
\* the range of the tempo input
MinBpm == 60
MaxBpm == 200

Min(a, b) == IF a <= b THEN a ELSE b
Max(a, b) == IF a >= b THEN a ELSE b
CeilDiv(a, b) == (a + b - 1) \div b

\* ---- Tempo clock -------------------------------------------------------
\* A duration is the rational n/d; the timer API truncates it to whole ms.
\* a faulty calculateDuration, which C19 rules out: three beats to the bar
calculateDurationOfThreeBeats(selectedBars, selectedBpm) ==
  [n |-> selectedBars * 3 * 60 * 1000, d |-> selectedBpm]

calculateDuration(selectedBars, selectedBpm) ==
  LET beats == selectedBars * BeatsPerBar
  IN  [n |-> beats * 60 * 1000, d |-> selectedBpm]

beatDuration(selectedBpm) == [n |-> 60 * 1000, d |-> selectedBpm]
barDuration(selectedBpm) == [n |-> 60 * BeatsPerBar * 1000, d |-> selectedBpm]

\* a faulty timer delay, which C13 rules out: a millisecond too long
DelayMsTooLong(q) == q.n \div q.d + 1
DelayMs(q) == q.n \div q.d
CeilMs(q) == CeilDiv(q.n, q.d)

Zero == [n |-> 0, d |-> 1]
One == [n |-> 1, d |-> 1]
\* Math.min(elapsed / duration, 1)
Position(elapsed, duration) ==
  IF elapsed * duration.d >= duration.n THEN One
  ELSE [n |-> elapsed * duration.d, d |-> duration.n]

MaxDurationMs ==
  CHOOSE m \in {CeilMs(calculateDuration(b, t)) : b \in BarsSet, t \in BpmSet} :
    \A b \in BarsSet, t \in BpmSet : CeilMs(calculateDuration(b, t)) <= m
AgeCap == MaxDurationMs + RestartDelayMs + PollMs
Age(a, delta) == Min(a + delta, AgeCap)

\* ---- state -------------------------------------------------------------
VARIABLES
  \* Sampler; padKeys[i] is pads[i].key
  isRecording, recordedHits, samplerRecordingStartTimeRef, audioBuffers,
  padKeys, keyToPadMapRef,
  \* Recorder state
  bpm, bars, recording, isPlaying, playbackPosition, recordingPosition,
  metronomeEnabled, countInBars, isCountingIn, countInBar,
  \* Recorder refs (timer ids, 0 = null)
  recordingStartTimeRef, countInTimeoutRef, playbackIntervalRef,
  playbackStartTimeRef, scheduledHitsRef, recordingIntervalRef,
  metronomeIntervalRef,
  \* pending timers of the window
  timers,
  \* history: user operations so far (commands, setting changes, pauses),
  \* playback loops restarted, recording cycles begun; the click and the
  \* playback trigger of the last step; a stop / clear command was given and
  \* no play command since; pad hits captured so far; the transport command
  \* handled by the last step; the time since the count-in that is running
  \* began
  commands, loops, cycle, click, triggered, stopped, cleared, captured, command,
  countInAge

vars == <<isRecording, recordedHits, samplerRecordingStartTimeRef, audioBuffers,
          padKeys, keyToPadMapRef,
          bpm, bars, recording, isPlaying, playbackPosition, recordingPosition,
          metronomeEnabled, countInBars, isCountingIn, countInBar,
          recordingStartTimeRef, countInTimeoutRef, playbackIntervalRef,
          playbackStartTimeRef, scheduledHitsRef, recordingIntervalRef,
          metronomeIntervalRef, timers, commands, loops, cycle, click,
          triggered, stopped, cleared, captured, command, countInAge>>

Null == <<>>
Some(r) == <<r>>

\* The state as one record, so that a handler is a function from state to state.
State ==
  [isRecording |-> isRecording, recordedHits |-> recordedHits,
   samplerRecordingStartTimeRef |-> samplerRecordingStartTimeRef,
   audioBuffers |-> audioBuffers,
   padKeys |-> padKeys, keyToPadMapRef |-> keyToPadMapRef,
   bpm |-> bpm, bars |-> bars, recording |-> recording, isPlaying |-> isPlaying,
   playbackPosition |-> playbackPosition, recordingPosition |-> recordingPosition,
   metronomeEnabled |-> metronomeEnabled, countInBars |-> countInBars,
   isCountingIn |-> isCountingIn, countInBar |-> countInBar,
   recordingStartTimeRef |-> recordingStartTimeRef,
   countInTimeoutRef |-> countInTimeoutRef,
   playbackIntervalRef |-> playbackIntervalRef,
   playbackStartTimeRef |-> playbackStartTimeRef,
   scheduledHitsRef |-> scheduledHitsRef,
   recordingIntervalRef |-> recordingIntervalRef,
   metronomeIntervalRef |-> metronomeIntervalRef,
   timers |-> timers, commands |-> commands, loops |-> loops,
   cycle |-> cycle, click |-> click,
   triggered |-> triggered, stopped |-> stopped, cleared |-> cleared,
   captured |-> captured, command |-> command, countInAge |-> countInAge]

\* A start-time ref is read only by the callbacks and handlers listed here, and
\* each of them is created after the ref was assigned.  While a ref has no
\* reader its value cannot be observed, and it is kept at AgeCap.
SamplerClockRead(s) ==
  \/ s.isRecording
  \/ \E t \in s.timers : t.env.isRecording
RecordingClockRead(s) == \E t \in s.timers : t.kind = "recordingInterval"
PlaybackClockRead(s) == \E t \in s.timers : t.kind = "playbackInterval"

\* A step whose handler would leave more than MaxTimers timers pending is not
\* taken.
Apply(s) ==
  /\ Cardinality(s.timers) <= MaxTimers
  /\ isRecording' = s.isRecording
  /\ recordedHits' = s.recordedHits
  /\ samplerRecordingStartTimeRef' =
       IF SamplerClockRead(s) THEN s.samplerRecordingStartTimeRef ELSE AgeCap
  /\ audioBuffers' = s.audioBuffers
  /\ padKeys' = s.padKeys
  /\ keyToPadMapRef' = s.keyToPadMapRef
  /\ bpm' = s.bpm
  /\ bars' = s.bars
  /\ recording' = s.recording
  /\ isPlaying' = s.isPlaying
  /\ playbackPosition' = s.playbackPosition
  /\ recordingPosition' = s.recordingPosition
  /\ metronomeEnabled' = s.metronomeEnabled
  /\ countInBars' = s.countInBars
  /\ isCountingIn' = s.isCountingIn
  /\ countInBar' = s.countInBar
  /\ recordingStartTimeRef' =
       IF RecordingClockRead(s) THEN s.recordingStartTimeRef ELSE AgeCap
  /\ countInTimeoutRef' = s.countInTimeoutRef
  /\ playbackIntervalRef' = s.playbackIntervalRef
  /\ playbackStartTimeRef' =
       IF PlaybackClockRead(s) THEN s.playbackStartTimeRef ELSE AgeCap
  /\ scheduledHitsRef' = s.scheduledHitsRef
  /\ recordingIntervalRef' = s.recordingIntervalRef
  /\ metronomeIntervalRef' = s.metronomeIntervalRef
  /\ timers' = s.timers
  /\ commands' = s.commands
  /\ loops' = s.loops
  /\ cycle' = s.cycle
  /\ click' = s.click
  /\ triggered' = s.triggered
  /\ stopped' = s.stopped
  /\ cleared' = s.cleared
  /\ captured' = s.captured
  /\ command' = s.command
  /\ countInAge' = IF s.isCountingIn THEN s.countInAge ELSE AgeCap

\* The state at the start of a step: nothing emitted yet.
Begin == [State EXCEPT !.click = "none", !.triggered = -1, !.command = "none"]
\* ... of a step in which the user does something
BeginCommand == [Begin EXCEPT !.commands = @ + 1]

\* ---- closures ----------------------------------------------------------
\* What a render exposes to the functions defined in it.
Env(s) ==
  [bpm |-> s.bpm, bars |-> s.bars, metronomeEnabled |-> s.metronomeEnabled,
   countInBars |-> s.countInBars, isCountingIn |-> s.isCountingIn,
   recording |-> s.recording, isRecording |-> s.isRecording]

NoEnv ==
  [bpm |-> 0, bars |-> 0, metronomeEnabled |-> FALSE, countInBars |-> 0,
   isCountingIn |-> FALSE, recording |-> Null, isRecording |-> FALSE]

\* ---- timers (window.setTimeout / setInterval / clear*) -------------------
UsedIds(s) ==
  {t.id : t \in s.timers}
    \cup {t.n : t \in {u \in s.timers : u.kind = "countInTimeout"}}
    \cup s.scheduledHitsRef
    \cup {s.countInTimeoutRef, s.playbackIntervalRef, s.recordingIntervalRef,
          s.metronomeIntervalRef}

\* Timer ids are opaque: the smallest id neither pending nor still referenced.
FreshId(s) ==
  CHOOSE i \in 1..(Cardinality(UsedIds(s)) + 1) :
    /\ i \notin UsedIds(s)
    /\ \A j \in 1..(i - 1) : j \in UsedIds(s)

Timer(id, kind, due, period, n, env) ==
  [id |-> id, kind |-> kind, due |-> due, period |-> period, n |-> n, env |-> env]

setTimer(s, t) == [s EXCEPT !.timers = @ \cup {t}]
clearTimer(s, id) == [s EXCEPT !.timers = {t \in @ : t.id # id}]
\* An interval that has fired is armed again one period later.
rearm(s, t) == [s EXCEPT !.timers = (@ \ {t}) \cup {[t EXCEPT !.due = t.period]}]
rearmWith(s, t, n) ==
  [s EXCEPT !.timers = (@ \ {t}) \cup {[t EXCEPT !.due = t.period, !.n = n]}]
expire(s, t) == [s EXCEPT !.timers = @ \ {t}]

\* ---- Sampler -----------------------------------------------------------
\* the keys of the first entries of DEFAULT_SOUNDS
DefaultKeys == <<"Q", "W", "E">>
NoKey == ""
\* a Map: set, delete
EmptyMap == [k \in {} |-> 0]
MapSet(m, k, v) == [x \in DOMAIN m \cup {k} |-> IF x = k THEN v ELSE m[x]]
MapDelete(m, k) == [x \in DOMAIN m \ {k} |-> m[x]]

\* loadDefaultSounds: one turn of the loop, the sound of pad i decoded
loadDefaultSound(s, i) ==
  [s EXCEPT !.audioBuffers = @ \cup {i},
            !.keyToPadMapRef = MapSet(@, DefaultKeys[i + 1], i),
            !.padKeys = [@ EXCEPT ![i] = DefaultKeys[i + 1]]]

handleKeyAssign(s, id, key) ==
  LET oldKey == s.padKeys[id]
      m1 == IF oldKey # NoKey THEN MapDelete(s.keyToPadMapRef, oldKey)
            ELSE s.keyToPadMapRef
      pads1 == [i \in DOMAIN s.padKeys |->
                  IF s.padKeys[i] = key THEN NoKey ELSE s.padKeys[i]]
  IN  [s EXCEPT !.keyToPadMapRef = MapSet(m1, key, id),
                !.padKeys = [pads1 EXCEPT ![id] = key]]

\* a faulty handleRecordingChange, which C10 rules out: the hits of the
\* previous cycle are kept when a cycle starts
handleRecordingChangeKeepingHits(s, rec) ==
  LET s1 == [s EXCEPT !.isRecording = rec]
  IN  IF rec THEN [s1 EXCEPT !.samplerRecordingStartTimeRef = 0] ELSE s1

handleRecordingChange(s, rec) ==
  LET s1 == [s EXCEPT !.isRecording = rec]
  IN  IF rec
      THEN [s1 EXCEPT !.recordedHits = <<>>, !.samplerRecordingStartTimeRef = 0]
      ELSE s1

\* a faulty playAudio, which C11 rules out: the hit is captured whatever the
\* mode
playAudioCapturingAlways(recFlag, s, id) ==
  IF id \notin s.audioBuffers THEN s
  ELSE [s EXCEPT !.recordedHits =
          Append(@, [padId |-> id,
                     timestamp |-> s.samplerRecordingStartTimeRef,
                     cyc |-> s.cycle]),
                 !.captured = @ + 1]

\* playAudio of the render in which the Sampler's isRecording was recFlag.
playAudio(recFlag, s, id) ==
  IF id \notin s.audioBuffers THEN s
  ELSE IF recFlag
       THEN [s EXCEPT !.recordedHits =
               Append(@, [padId |-> id,
                          timestamp |-> s.samplerRecordingStartTimeRef,
                          cyc |-> s.cycle]),
                      !.captured = @ + 1]
       ELSE s

\* ---- Metronome ---------------------------------------------------------
playMetronomeClick(e, s, isDownbeat) ==
  IF ~e.metronomeEnabled THEN s
  ELSE [s EXCEPT !.click = IF isDownbeat THEN "downbeat" ELSE "beat"]

startMetronome(e, s) ==
  IF ~e.metronomeEnabled THEN s
  ELSE LET s1 == playMetronomeClick(e, s, TRUE)
           id == FreshId(s1)
           period == DelayMs(beatDuration(e.bpm))
           s2 == setTimer(s1, Timer(id, "metronome", period, period, 0,
                     [NoEnv EXCEPT !.metronomeEnabled = e.metronomeEnabled]))
       IN  [s2 EXCEPT !.metronomeIntervalRef = id]

stopMetronome(s) ==
  IF s.metronomeIntervalRef # 0
  THEN [clearTimer(s, s.metronomeIntervalRef) EXCEPT !.metronomeIntervalRef = 0]
  ELSE s

\* ---- Recording ---------------------------------------------------------
\* a faulty startActualRecording, which C32 rules out: the window is taken to
\* end one bar late, as if a count-in came first
startActualRecordingAfterOneBar(e, s) ==
  LET s1 == [handleRecordingChange(s, TRUE) EXCEPT !.recordingStartTimeRef = 0]
      s2 == IF e.metronomeEnabled /\ ~e.isCountingIn
            THEN startMetronome(e, s1) ELSE s1
      duration == calculateDuration(e.bars + 1, e.bpm)
      pid == FreshId(s2)
      s3 == [setTimer(s2, Timer(pid, "recordingInterval", PollMs, PollMs, 0,
                [NoEnv EXCEPT !.bars = e.bars, !.bpm = e.bpm]))
               EXCEPT !.recordingIntervalRef = pid]
  IN  setTimer(s3, Timer(FreshId(s3), "autoStop", DelayMs(duration), 0, 0, NoEnv))

startActualRecording(e, s) ==
  LET s1 == [handleRecordingChange(s, TRUE) EXCEPT !.recordingStartTimeRef = 0]
      s2 == IF e.metronomeEnabled /\ ~e.isCountingIn
            THEN startMetronome(e, s1) ELSE s1
      duration == calculateDuration(e.bars, e.bpm)
      pid == FreshId(s2)
      s3 == [setTimer(s2, Timer(pid, "recordingInterval", PollMs, PollMs, 0,
                [NoEnv EXCEPT !.bars = e.bars, !.bpm = e.bpm]))
               EXCEPT !.recordingIntervalRef = pid]
  IN  setTimer(s3, Timer(FreshId(s3), "autoStop", DelayMs(duration), 0, 0, NoEnv))

\* a faulty handleRecord, which C39 rules out: the Recording of the cycle
\* before is kept when a cycle starts
handleRecordKeepingRecording(e, s) ==
  IF e.isRecording \/ e.isCountingIn
  THEN IF e.isCountingIn
       THEN LET s1 == stopMetronome([s EXCEPT !.isCountingIn = FALSE])
            IN  IF s1.countInTimeoutRef # 0
                THEN [clearTimer(s1, s1.countInTimeoutRef)
                        EXCEPT !.countInTimeoutRef = 0]
                ELSE s1
       ELSE LET s1 == stopMetronome(handleRecordingChange(s, FALSE))
                s2 == [s1 EXCEPT !.recordingPosition = Zero]
                s3 == IF s2.recordingIntervalRef # 0
                      THEN [clearTimer(s2, s2.recordingIntervalRef)
                              EXCEPT !.recordingIntervalRef = 0]
                      ELSE s2
                duration == calculateDuration(e.bars, e.bpm)
                newRecording == [hits |-> s.recordedHits, bars |-> e.bars,
                                 bpm |-> e.bpm, duration |-> duration]
            IN  [s3 EXCEPT !.recording = Some(newRecording)]
  ELSE LET s1 == [s EXCEPT !.isPlaying = FALSE,
                           !.recordingPosition = Zero, !.cycle = @ + 1]
       IN  IF e.countInBars > 0
           THEN LET s2 == [s1 EXCEPT !.isCountingIn = TRUE, !.countInBar = 1]
                    s3 == IF e.metronomeEnabled THEN startMetronome(e, s2) ELSE s2
                    barMs == DelayMs(barDuration(e.bpm))
                    barInterval == FreshId(s3)
                    s4 == setTimer(s3, Timer(barInterval, "barInterval", barMs,
                             barMs, 1, [NoEnv EXCEPT !.countInBars = e.countInBars]))
                    countInDuration == calculateDuration(e.countInBars, e.bpm)
                    cid == FreshId(s4)
                    s5 == setTimer(s4, Timer(cid, "countInTimeout",
                             DelayMs(countInDuration), 0, barInterval,
                             [NoEnv EXCEPT !.metronomeEnabled = e.metronomeEnabled,
                                           !.isCountingIn = e.isCountingIn,
                                           !.bars = e.bars, !.bpm = e.bpm]))
                IN  [s5 EXCEPT !.countInTimeoutRef = cid]
           ELSE startActualRecording(e, s1)

handleRecord(e, s) ==
  IF e.isRecording \/ e.isCountingIn
  THEN IF e.isCountingIn
       THEN LET s1 == stopMetronome([s EXCEPT !.isCountingIn = FALSE])
            IN  IF s1.countInTimeoutRef # 0
                THEN [clearTimer(s1, s1.countInTimeoutRef)
                        EXCEPT !.countInTimeoutRef = 0]
                ELSE s1
       ELSE LET s1 == stopMetronome(handleRecordingChange(s, FALSE))
                s2 == [s1 EXCEPT !.recordingPosition = Zero]
                s3 == IF s2.recordingIntervalRef # 0
                      THEN [clearTimer(s2, s2.recordingIntervalRef)
                              EXCEPT !.recordingIntervalRef = 0]
                      ELSE s2
                duration == calculateDuration(e.bars, e.bpm)
                newRecording == [hits |-> s.recordedHits, bars |-> e.bars,
                                 bpm |-> e.bpm, duration |-> duration]
            IN  [s3 EXCEPT !.recording = Some(newRecording)]
  ELSE LET s1 == [s EXCEPT !.recording = Null, !.isPlaying = FALSE,
                           !.recordingPosition = Zero, !.cycle = @ + 1]
       IN  IF e.countInBars > 0
           THEN LET s2 == [s1 EXCEPT !.isCountingIn = TRUE, !.countInBar = 1]
                    s3 == IF e.metronomeEnabled THEN startMetronome(e, s2) ELSE s2
                    barMs == DelayMs(barDuration(e.bpm))
                    barInterval == FreshId(s3)
                    s4 == setTimer(s3, Timer(barInterval, "barInterval", barMs,
                             barMs, 1, [NoEnv EXCEPT !.countInBars = e.countInBars]))
                    countInDuration == calculateDuration(e.countInBars, e.bpm)
                    cid == FreshId(s4)
                    s5 == setTimer(s4, Timer(cid, "countInTimeout",
                             DelayMs(countInDuration), 0, barInterval,
                             [NoEnv EXCEPT !.metronomeEnabled = e.metronomeEnabled,
                                           !.isCountingIn = e.isCountingIn,
                                           !.bars = e.bars, !.bpm = e.bpm]))
                IN  [s5 EXCEPT !.countInTimeoutRef = cid]
           ELSE startActualRecording(e, s1)

\* ---- Playback -------------------------------------------------------
PlaybackEnv(e) ==
  [NoEnv EXCEPT !.recording = e.recording, !.metronomeEnabled = e.metronomeEnabled,
                !.bpm = e.bpm, !.isRecording = e.isRecording]

RECURSIVE scheduleHits(_, _, _, _)
\* recording.hits.forEach: one timeout per hit, its id added to scheduledHitsRef
scheduleHits(e, s, hits, i) ==
  IF i > Len(hits) THEN s
  ELSE LET timeoutId == FreshId(s)
           s1 == setTimer(s, Timer(timeoutId, "hit", hits[i].timestamp, 0,
                    hits[i].padId, [NoEnv EXCEPT !.isRecording = e.isRecording]))
       IN  scheduleHits(e, [s1 EXCEPT !.scheduledHitsRef = @ \cup {timeoutId}],
                        hits, i + 1)

\* a faulty startPlayback, which C9 rules out: a Recording without hits is
\* played
startPlaybackOfEmptyRecording(e, s) ==
  IF e.recording = Null THEN s
  ELSE LET s1 == [s EXCEPT !.isPlaying = TRUE, !.playbackStartTimeRef = 0,
                           !.scheduledHitsRef = {}]
           s2 == IF e.metronomeEnabled THEN startMetronome(e, s1) ELSE s1
           s3 == scheduleHits(e, s2, e.recording[1].hits, 1)
           pid == FreshId(s3)
       IN  [setTimer(s3, Timer(pid, "playbackInterval", PollMs, PollMs, 0,
                                PlaybackEnv(e)))
              EXCEPT !.playbackIntervalRef = pid]

\* a faulty startPlayback, which C25 rules out: the anchor of the iteration is
\* the end of the iteration before it, not the clock
startPlaybackAnchoredOnLoopEnd(e, s) ==
  IF e.recording = Null \/ Len(e.recording[1].hits) = 0 THEN s
  ELSE LET s1 == [s EXCEPT !.isPlaying = TRUE,
                           !.playbackStartTimeRef = RestartDelayMs,
                           !.scheduledHitsRef = {}]
           s2 == IF e.metronomeEnabled THEN startMetronome(e, s1) ELSE s1
           s3 == scheduleHits(e, s2, e.recording[1].hits, 1)
           pid == FreshId(s3)
       IN  [setTimer(s3, Timer(pid, "playbackInterval", PollMs, PollMs, 0,
                                PlaybackEnv(e)))
              EXCEPT !.playbackIntervalRef = pid]

startPlayback(e, s) ==
  IF e.recording = Null \/ Len(e.recording[1].hits) = 0 THEN s
  ELSE LET s1 == [s EXCEPT !.isPlaying = TRUE, !.playbackStartTimeRef = 0,
                           !.scheduledHitsRef = {}]
           s2 == IF e.metronomeEnabled THEN startMetronome(e, s1) ELSE s1
           s3 == scheduleHits(e, s2, e.recording[1].hits, 1)
           pid == FreshId(s3)
       IN  [setTimer(s3, Timer(pid, "playbackInterval", PollMs, PollMs, 0,
                                PlaybackEnv(e)))
              EXCEPT !.playbackIntervalRef = pid]

stopPlayback(s) ==
  LET s1 == stopMetronome([s EXCEPT !.isPlaying = FALSE, !.playbackPosition = Zero])
      s2 == IF s1.playbackIntervalRef # 0
            THEN [clearTimer(s1, s1.playbackIntervalRef)
                    EXCEPT !.playbackIntervalRef = 0]
            ELSE s1
  IN  [s2 EXCEPT !.timers = {t \in @ : t.id \notin s2.scheduledHitsRef},
                 !.scheduledHitsRef = {}]

\* a faulty handlePlayStop, which C21 rules out: playback is marked as started
\* before the Recording is looked at
handlePlayStopMarkingFirst(e, s) ==
  IF s.isPlaying THEN stopPlayback(s)
  ELSE startPlayback(e, [s EXCEPT !.isPlaying = TRUE])

handlePlayStop(e, s) ==
  IF s.isPlaying THEN stopPlayback(s) ELSE startPlayback(e, s)

handleClear(s) ==
  LET s1 == stopMetronome(stopPlayback(s))
      s2 == [s1 EXCEPT !.recording = Null, !.recordingPosition = Zero,
                       !.isCountingIn = FALSE]
      s3 == IF s2.countInTimeoutRef # 0
            THEN [clearTimer(s2, s2.countInTimeoutRef) EXCEPT !.countInTimeoutRef = 0]
            ELSE s2
  IN  handleRecordingChange(s3, FALSE)

\* ---- timer callbacks ---------------------------------------------------
\* a faulty callback of a scheduled hit, which C17 rules out: it plays the
\* first pad whatever the hit
hitTimeoutOfFirstPad(t, s) ==
  LET s1 == playAudio(t.env.isRecording, [expire(s, t) EXCEPT !.triggered = 0], 0)
  IN  [s1 EXCEPT !.scheduledHitsRef = @ \ {t.id}]

Due(kind) == {t \in timers : t.kind = kind /\ t.due = 0}

\* a faulty interval callback, which C29 rules out: the beat is counted after
\* the click
metronomeTickCountingLate(t, s) ==
  LET isDownbeat == t.n % BeatsPerBar = 0
  IN  playMetronomeClick(t.env, rearmWith(s, t, (t.n + 1) % BeatsPerBar), isDownbeat)

\* startMetronome: the setInterval callback
metronomeTick(t, s) ==
  LET beatCount == (t.n + 1) % BeatsPerBar
      isDownbeat == beatCount % BeatsPerBar = 0
  IN  playMetronomeClick(t.env, rearmWith(s, t, beatCount), isDownbeat)

\* handleRecord: the barInterval callback
barIntervalTick(t, s) ==
  LET currentBar == t.n + 1
      s1 == rearmWith(s, t, currentBar)
  IN  IF currentBar <= t.env.countInBars
      THEN [s1 EXCEPT !.countInBar = currentBar]
      ELSE clearTimer(s1, t.id)

\* handleRecord: the countInTimeoutRef callback
countInTimeout(t, s) ==
  LET s1 == clearTimer(expire(s, t), t.n)
  IN  startActualRecording(t.env, [s1 EXCEPT !.isCountingIn = FALSE])

\* startActualRecording: the recordingIntervalRef callback at elapsed ms
recordingPoll(t, s, elapsed) ==
  [s EXCEPT !.recordingPosition =
     Position(elapsed, calculateDuration(t.env.bars, t.env.bpm))]

\* a faulty auto-stop callback, which C37 rules out: the position poll is
\* left running
autoStopLeavingPoll(t, s) ==
  LET s1 == stopMetronome(handleRecordingChange(expire(s, t), FALSE))
  IN  [s1 EXCEPT !.recordingPosition = Zero]

\* startActualRecording: the auto-stop callback
autoStop(t, s) ==
  LET s1 == stopMetronome(handleRecordingChange(expire(s, t), FALSE))
      s2 == [s1 EXCEPT !.recordingPosition = Zero]
  IN  IF s2.recordingIntervalRef # 0
      THEN [clearTimer(s2, s2.recordingIntervalRef) EXCEPT !.recordingIntervalRef = 0]
      ELSE s2

\* startPlayback: the callback of one scheduled hit
hitTimeout(t, s) ==
  LET s1 == playAudio(t.env.isRecording, [expire(s, t) EXCEPT !.triggered = t.n], t.n)
  IN  [s1 EXCEPT !.scheduledHitsRef = @ \ {t.id}]

\* startPlayback: the playbackIntervalRef callback at elapsed ms
playbackPoll(t, s, elapsed) ==
  LET position == Position(elapsed, t.env.recording[1].duration)
      s1 == [s EXCEPT !.playbackPosition = position]
  IN  IF position = One
      THEN LET s2 == stopPlayback(s1)
           IN  setTimer(s2, Timer(FreshId(s2), "restart", RestartDelayMs, 0, 0, t.env))
      ELSE s1

\* startPlayback: setTimeout(() => startPlayback(), 50)
restartTimeout(t, s) == startPlayback(t.env, expire(s, t))

\* ---- initial state: the components as mounted ---------------------------
Init ==
  /\ isRecording = FALSE
  /\ recordedHits = <<>>
  /\ samplerRecordingStartTimeRef = AgeCap
  /\ audioBuffers = {}
  /\ padKeys = [i \in KeyPadIds |-> NoKey]
  /\ keyToPadMapRef = EmptyMap
  /\ bpm = 120
  /\ bars = 8
  /\ recording = Null
  /\ isPlaying = FALSE
  /\ playbackPosition = Zero
  /\ recordingPosition = Zero
  /\ metronomeEnabled = FALSE
  /\ countInBars = 0
  /\ isCountingIn = FALSE
  /\ countInBar = 0
  /\ recordingStartTimeRef = AgeCap
  /\ countInTimeoutRef = 0
  /\ playbackIntervalRef = 0
  /\ playbackStartTimeRef = AgeCap
  /\ scheduledHitsRef = {}
  /\ recordingIntervalRef = 0
  /\ metronomeIntervalRef = 0
  /\ timers = {}
  /\ commands = 0
  /\ loops = 0
  /\ cycle = 0
  /\ click = "none"
  /\ triggered = -1
  /\ stopped = FALSE
  /\ cleared = FALSE
  /\ captured = 0
  /\ command = "none"
  /\ countInAge = AgeCap

\* ---- user interface ----------------------------------------------------
\* Timers that are due run before the next click on a control is handled.
NoTimerDue == \A t \in timers : t.due > 0

\* the `disabled` attributes of the controls
RecordDisabled == isPlaying
PlayDisabled ==
  isRecording \/ isCountingIn \/ recording = Null \/ Len(recording[1].hits) = 0
ClearDisabled == isRecording \/ isPlaying \/ isCountingIn
SettingsDisabled == isRecording \/ isPlaying \/ isCountingIn

\* a click on the record button; ui = FALSE calls the handler whatever the button shows
RecordCommand(ui) ==
  /\ NoTimerDue
  /\ ui => ~RecordDisabled
  /\ commands < MaxCommands
  /\ Apply([handleRecord(Env(State), BeginCommand)
              EXCEPT !.command = "record",
                     !.countInAge = IF isCountingIn THEN @ ELSE 0])

PlayStopCommand(ui) ==
  /\ NoTimerDue
  /\ ui => ~PlayDisabled
  /\ commands < MaxCommands
  /\ Apply([handlePlayStop(Env(State), BeginCommand)
                EXCEPT !.stopped = isPlaying,
                       !.cleared = IF isPlaying THEN @ ELSE FALSE,
                       !.command = IF isPlaying THEN "stop" ELSE "play"])

ClearCommand(ui) ==
  /\ NoTimerDue
  /\ ui => ~ClearDisabled
  /\ commands < MaxCommands
  /\ Apply([handleClear(BeginCommand) EXCEPT !.cleared = TRUE,
                                             !.command = "clear"])

Record == RecordCommand(TRUE)
PlayStop == PlayStopCommand(TRUE)
Clear == ClearCommand(TRUE)

\* a pad click or a mapped key, on one of the given pads
PadHitOf(pads) ==
  \E id \in pads :
    /\ isRecording => captured < MaxHits
    /\ Apply(playAudio(isRecording, Begin, id))

PadHit == PadHitOf(PadIds)

\* loadDefaultSounds: the next default sound is decoded and stored; the sounds
\* are in place before the user's first operation, or the fetch has failed
LoadSoundOf(pads) ==
  \E i \in pads :
    /\ commands = 0 /\ i \notin audioBuffers
    /\ \A j \in pads : j < i => j \in audioBuffers
    /\ Apply(loadDefaultSound(Begin, i))

LoadSound == LoadSoundOf(PadIds)

SetBpm ==
  \E v \in BpmSet :
    /\ NoTimerDue /\ ~SettingsDisabled /\ commands < MaxCommands /\ v # bpm
    /\ Apply([BeginCommand EXCEPT !.bpm = Max(60, Min(200, v))])

SetBars ==
  \E v \in BarsSet :
    /\ NoTimerDue /\ ~SettingsDisabled /\ commands < MaxCommands /\ v # bars
    /\ Apply([BeginCommand EXCEPT !.bars = v])

SetMetronomeEnabled ==
  /\ NoTimerDue /\ ~SettingsDisabled /\ commands < MaxCommands
  /\ Apply([BeginCommand EXCEPT !.metronomeEnabled = ~@])

SetCountInBars ==
  \E v \in CountInSet :
    /\ NoTimerDue /\ ~SettingsDisabled /\ commands < MaxCommands /\ v # countInBars
    /\ Apply([BeginCommand EXCEPT !.countInBars = v])

\* ---- the event loop runs a due timer -----------------------------------
MetronomeTick ==
  \E t \in Due("metronome") : Apply(metronomeTick(t, Begin))

BarIntervalTick ==
  \E t \in Due("barInterval") : Apply(barIntervalTick(t, Begin))

CountInTimeout ==
  \E t \in Due("countInTimeout") : Apply(countInTimeout(t, Begin))

RecordingIntervalTick ==
  \E t \in Due("recordingInterval") :
    Apply(recordingPoll(t, rearm(Begin, t),
                        recordingStartTimeRef))

AutoStopTimeout ==
  \E t \in Due("autoStop") : Apply(autoStop(t, Begin))

HitTimeout ==
  \E t \in Due("hit") : Apply(hitTimeout(t, Begin))

PlaybackIntervalTick ==
  \E t \in Due("playbackInterval") :
    Apply(playbackPoll(t, rearm(Begin, t),
                       playbackStartTimeRef))

RestartTimeout ==
  \E t \in Due("restart") :
    /\ loops < MaxLoops
    /\ Apply(restartTimeout(t, [Begin EXCEPT !.loops = @ + 1]))

\* ---- time passes -------------------------------------------------------
\* The callbacks that run every few milliseconds: the two position polls and
\* the metronome.
IsPeriodic(t) == t.kind \in {"recordingInterval", "playbackInterval", "metronome"}

\* the first firing of a playback poll that observes position >= 1
LoopEnd(t) ==
  LET need == Max(0, CeilMs(t.env.recording[1].duration)
                       - playbackStartTimeRef - t.due)
  IN  t.due + t.period * CeilDiv(need, t.period)

Horizon ==
  {t.due : t \in {u \in timers : ~IsPeriodic(u)}}
    \cup {LoopEnd(t) : t \in {u \in timers : u.kind = "playbackInterval"}}

\* the firings of interval t strictly before delta: how many, and the last
Firings(t, delta) == IF t.due >= delta THEN 0 ELSE (delta - 1 - t.due) \div t.period + 1
LastBefore(t, delta) == t.due + t.period * (Firings(t, delta) - 1)
Elapse(t, delta) ==
  IF ~IsPeriodic(t) \/ t.due >= delta THEN [t EXCEPT !.due = @ - delta]
  ELSE [t EXCEPT !.due = LastBefore(t, delta) + t.period - delta,
                 !.n = IF t.kind = "metronome"
                       THEN (@ + Firings(t, delta)) % BeatsPerBar ELSE @]

Ran(kind, delta) == {t \in timers : t.kind = kind /\ t.due < delta}
Latest(kind, delta) ==
  {t \in Ran(kind, delta) :
     \A u \in Ran(kind, delta) : LastBefore(u, delta) <= LastBefore(t, delta)}

\* The clock moves on by delta ms: to the next instant at which a timeout, a
\* count-in bar tick or the end of a playback loop is due, or by a pause the
\* user makes.  The firings of the position polls and of the metronome
\* that fall strictly before that instant run within this step: a poll stores
\* the position it computes, a metronome tick counts its beat and clicks.
AdvanceBy(pauses) ==
  \E delta \in Horizon \cup pauses :
    /\ delta > 0
    /\ NoTimerDue
    /\ delta \notin Horizon => commands < MaxCommands
    /\ \A h \in Horizon : delta <= h
    /\ \E r \in IF Ran("recordingInterval", delta) = {} THEN {Null}
                ELSE {Some(t) : t \in Latest("recordingInterval", delta)},
          p \in IF Ran("playbackInterval", delta) = {} THEN {Null}
                ELSE {Some(t) : t \in Latest("playbackInterval", delta)} :
         LET s0 == IF delta \in Horizon THEN Begin ELSE BeginCommand
             s1 == IF r = Null THEN s0
                   ELSE recordingPoll(r[1], s0,
                          Age(recordingStartTimeRef, LastBefore(r[1], delta)))
             s2 == IF p = Null THEN s1
                   ELSE playbackPoll(p[1], s1,
                          Age(playbackStartTimeRef, LastBefore(p[1], delta)))
         IN  Apply([s2 EXCEPT
               !.timers = {Elapse(t, delta) : t \in timers},
               !.click = IF Ran("metronome", delta) = {} THEN "none" ELSE "ticks",
               !.countInAge = Age(@, delta),
               !.samplerRecordingStartTimeRef = Age(@, delta),
               !.recordingStartTimeRef = Age(@, delta),
               !.playbackStartTimeRef = Age(@, delta)])

Advance == AdvanceBy(UserDelays)

\* ---- specifications ----------------------------------------------------
TimerStep ==
  \/ MetronomeTick
  \/ BarIntervalTick
  \/ CountInTimeout
  \/ RecordingIntervalTick
  \/ AutoStopTimeout
  \/ HitTimeout
  \/ PlaybackIntervalTick
  \/ RestartTimeout
  \/ Advance

Settings == SetMetronomeEnabled \/ SetCountInBars

\* The recorder at its default tempo and length, driven through its controls.
Next ==
  \/ Record
  \/ PlayStop
  \/ Clear
  \/ PadHit
  \/ LoadSound
  \/ Settings
  \/ TimerStep

Spec == Init /\ [][Next]_vars

\* The handlers called in any state, whatever the controls show.
RecordCore == RecordCommand(FALSE)
PlayStopCore == PlayStopCommand(FALSE)
ClearCore == ClearCommand(FALSE)

NextCore ==
  \/ RecordCore
  \/ PlayStopCore
  \/ ClearCore
  \/ PadHit
  \/ LoadSound
  \/ Settings
  \/ TimerStep

SpecCore == Init /\ [][NextCore]_vars

\* A click on the record button that is handled in the millisecond in which a
\* timer is due, before the callback of that timer runs.
RecordOverdue ==
  /\ ~NoTimerDue
  /\ ~RecordDisabled
  /\ commands < MaxCommands
  /\ Apply([handleRecord(Env(State), BeginCommand)
              EXCEPT !.command = "record",
                     !.countInAge = IF isCountingIn THEN @ ELSE 0])

NextLate == Next \/ RecordOverdue

SpecLate == Init /\ [][NextLate]_vars

\* The recorder with the tempo and the length changed between cycles.
NextTempo ==
  \/ Record
  \/ PlayStop
  \/ PadHit
  \/ LoadSound
  \/ SetBpm
  \/ SetBars
  \/ Settings
  \/ TimerStep

SpecTempo == Init /\ [][NextTempo]_vars

\* ---- properties --------------------------------------------------------
Idle == ~isRecording /\ ~isCountingIn /\ ~isPlaying
Metronomes == {t \in timers : t.kind = "metronome"}
PlaybackTimers == {t \in timers : t.kind \in {"hit", "playbackInterval", "restart"}}
\* the Recording a cycle that ends now has to leave behind
CapturedRecording ==
  Some([hits |-> recordedHits, bars |-> bars, bpm |-> bpm,
        duration |-> calculateDuration(bars, bpm)])
\* the capture window that is open has lasted its full length
WindowExpired == recordingStartTimeRef >= DelayMs(calculateDuration(bars, bpm))
NothingToPlay == recording = Null \/ Len(recording[1].hits) = 0

\* C1: playback never runs together with recording or count-in, the commands
\* being given only through enabled controls.
C1_PlayingExcludesRecording == ~(isPlaying /\ (isRecording \/ isCountingIn))

\* C2: when the auto-stop timer ends a capture window that has lasted its full
\* length, the mode becomes Idle and the Recording holds the hits captured in
\* the window with the bars, bpm and duration in force.
C2_AutoStopMaterializes ==
  [][(AutoStopTimeout /\ isRecording /\ WindowExpired)
       => (~isRecording' /\ ~isCountingIn' /\ ~isPlaying'
           /\ recording' = CapturedRecording)]_vars

\* C3: handleRecord called while Playing changes nothing: isPlaying stays true,
\* the Recording is kept, no count-in or recording cycle starts and the
\* pending timers are untouched.
C3_RecordWhilePlayingRejected ==
  [][(RecordCore /\ isPlaying /\ ~isRecording /\ ~isCountingIn)
       => (isPlaying' /\ recording' = recording /\ ~isRecording'
           /\ ~isCountingIn' /\ cycle' = cycle /\ timers' = timers)]_vars

\* C4: from a stop command until the next play command no playback trigger
\* invokes onPlay and isPlaying is not true.
C4_NoPlaybackAfterStop == stopped => (~isPlaying /\ triggered = -1)

\* C5: the auto-stop timer ends a recording only when the capture window that
\* is open has lasted its own duration.
C5_AutoStopNotEarly ==
  [][(AutoStopTimeout /\ isRecording) => WindowExpired]_vars

\* C6: from a clear command until the next play command no playback trigger
\* invokes onPlay and isPlaying is not true.
C6_NoPlaybackAfterClear == cleared => (~isPlaying /\ triggered = -1)

\* C7: at most one metronome interval is live.
C7_OneMetronome == Cardinality(Metronomes) <= 1

\* C8: in Idle mode no metronome interval is live.
C8_IdleNoMetronome == Idle => Metronomes = {}

\* C9: handlePlayStop called while not playing, with no Recording or with a
\* Recording without hits, leaves isPlaying false and schedules nothing: the
\* timers and the playback and metronome refs stay as they were, and the step
\* emits no click and no trigger.
C9_PlayWithoutHitsIsNoOp ==
  [][(PlayStopCore /\ ~isPlaying /\ NothingToPlay)
       => (~isPlaying' /\ timers' = timers
           /\ click' = "none" /\ triggered' = -1
           /\ UNCHANGED <<playbackIntervalRef, scheduledHitsRef,
                          metronomeIntervalRef, playbackPosition, loops,
                          recording>>)]_vars
\* ... a play command has just been handled with a Recording that has no hits
C9_Witness ==
  /\ command = "play" /\ recording # Null /\ Len(recording[1].hits) = 0
  /\ ~isPlaying /\ PlaybackTimers = {}

\* C10: every hit of a Recording was captured in the cycle that produced the
\* Recording, within that cycle's capture window.
C10_OnlyOwnHits ==
  recording # Null =>
    \A i \in 1..Len(recording[1].hits) :
      /\ recording[1].hits[i].cyc = cycle
      /\ recording[1].hits[i].timestamp <= DelayMs(recording[1].duration)
\* ... the second cycle has produced a Recording with a hit, the first cycle
\* having captured a hit as well
C10_Witness ==
  /\ cycle = 2 /\ captured = 2 /\ recording # Null
  /\ Len(recording[1].hits) = 1 /\ recording[1].hits[1].cyc = 2

\* the user hits pad id, which has a sound
PadHitOn(id) == id \in audioBuffers /\ Apply(playAudio(isRecording, Begin, id))
LastHit == recordedHits'[Len(recordedHits')]

\* C11: a hit of a pad that has a sound is appended to the capture log, with
\* its pad and its offset in the window, exactly when isRecording is true at
\* that moment; a trigger fired by playback leaves the log as it is, and the
\* log never grows in any other step.
C11_CapturedIffRecording ==
  [][/\ \A id \in PadIds :
          PadHitOn(id) =>
            IF isRecording
            THEN /\ Len(recordedHits') = Len(recordedHits) + 1
                 /\ SubSeq(recordedHits', 1, Len(recordedHits)) = recordedHits
                 /\ LastHit.padId = id
                 /\ LastHit.timestamp = samplerRecordingStartTimeRef
            ELSE recordedHits' = recordedHits
     /\ HitTimeout => recordedHits' = recordedHits
     /\ Len(recordedHits') > Len(recordedHits) => (isRecording /\ PadHit)]_vars
\* ... a hit in the last millisecond of the window is in the log
C11_Witness ==
  /\ isRecording /\ Len(recordedHits) > 0
  /\ recordedHits[Len(recordedHits)].timestamp
       = DelayMs(calculateDuration(bars, bpm)) - 1

\* C12: every hit of a Recording has an offset inside the window,
\* 0 <= timestamp < duration, the duration being bars * 4 * 60000 / bpm.
C12_HitsInsideWindow ==
  recording # Null =>
    /\ recording[1].duration.n * recording[1].bpm
         = recording[1].bars * 4 * 60000 * recording[1].duration.d
    /\ \A i \in 1..Len(recording[1].hits) :
         /\ 0 <= recording[1].hits[i].timestamp
         /\ recording[1].hits[i].timestamp * recording[1].duration.d
              < recording[1].duration.n

\* the length of the count-in chosen in the settings, in ms
CountInMs == (countInBars * 4 * 60000) \div bpm
CountInTimers == {t \in timers : t.kind = "countInTimeout"}

\* C13: with a count-in of N bars a record command given in Idle mode starts
\* the count-in; while it runs nothing is captured and its timeout is pending,
\* due N * 4 * 60000 / bpm ms after the command; the mode becomes Recording
\* when that timeout fires, at that instant and not earlier.
C13_CountInRunsItsLength ==
  [][/\ (Record /\ Idle /\ countInBars > 0) => (isCountingIn' /\ ~isRecording')
     /\ isCountingIn =>
          /\ ~isRecording
          /\ Len(recordedHits') <= Len(recordedHits)
          /\ \E t \in CountInTimers :
               t.id = countInTimeoutRef /\ t.due + countInAge = CountInMs
     /\ (isCountingIn /\ isRecording') =>
          (CountInTimeout /\ countInAge = CountInMs /\ ~isCountingIn')
     /\ (CountInTimeout /\ isCountingIn) => isRecording']_vars
\* ... a count-in of two bars has just handed over to the recording
C13_Witness ==
  /\ isRecording /\ ~isCountingIn /\ countInBars = 2
  /\ recordingStartTimeRef = 0 /\ command = "none"

\* C14: a record command given during the count-in cancels it: the mode is
\* Idle afterwards, there is no Recording, no metronome interval is pending,
\* and no count-in timeout is left that could start the recording later.
C14_CancelCountIn ==
  [][(Record /\ isCountingIn)
       => (Idle' /\ recording' = Null /\ Metronomes' = {}
           /\ CountInTimers' = {})]_vars

\* C15: the bar-advance callback of a count-in runs only while that count-in
\* is running: none fires once the count-in has been cancelled.
C15_NoBarTickAfterCancel == [][BarIntervalTick => isCountingIn]_vars

\* the transport mode shown by the three flags
Mode ==
  IF isPlaying THEN "Playing"
  ELSE IF isRecording THEN "Recording"
  ELSE IF isCountingIn THEN "CountingIn" ELSE "Idle"

\* C16: the mode changes only by a record command (Idle to CountingIn or
\* Recording, CountingIn to Idle, Recording to Idle), by the end of the
\* count-in (CountingIn to Recording), by the expiry of the window (Recording
\* to Idle), by a play command with a Recording that has hits (Idle to
\* Playing) and by a stop command (Playing to Idle).
C16_ValidTransitions ==
  [][Mode' # Mode =>
       \/ /\ Mode = "Idle" /\ Mode' \in {"CountingIn", "Recording"}
          /\ command' = "record"
       \/ Mode = "CountingIn" /\ Mode' = "Recording" /\ CountInTimeout
       \/ Mode = "CountingIn" /\ Mode' = "Idle" /\ command' = "record"
       \/ /\ Mode = "Recording" /\ Mode' = "Idle"
          /\ (command' = "record" \/ AutoStopTimeout)
       \/ /\ Mode = "Idle" /\ Mode' = "Playing" /\ command' = "play"
          /\ ~NothingToPlay
       \/ Mode = "Playing" /\ Mode' = "Idle" /\ command' = "stop"]_vars

\* the restart timeouts created by the step
NewRestarts == {t \in timers' \ timers : t.kind = "restart"}

\* C18: when a loop iteration ends, the next one starts, and with it the
\* first trigger of the next iteration follows the first trigger of this one,
\* no later than the length of the Recording plus one tick of the position
\* poll after this iteration started.
C18_LoopGapWithinOneTick ==
  [][PlaybackIntervalTick =>
       \A t \in NewRestarts :
         playbackStartTimeRef + t.due
           <= CeilMs(t.env.recording[1].duration) + PollMs]_vars

\* C20: a clear command while counting in, recording or playing changes
\* neither the mode nor the Recording nor the capture log nor any pending
\* timer; from Idle it discards the Recording and the mode stays Idle.
C20_ClearOnlyFromIdle ==
  [][ClearCore =>
       IF Idle
       THEN recording' = Null /\ Idle'
       ELSE UNCHANGED <<isPlaying, isRecording, isCountingIn, recording,
                        recordedHits, timers>>]_vars

\* ---- the lengths the recorder computes, over every tempo ----------------
\* The recorder mounted with any tempo of the input's range, any length and
\* any count-in, and no sound loaded.
InitDuration ==
  /\ bpm \in MinBpm..MaxBpm
  /\ bars \in BarsSet
  /\ countInBars \in CountInSet
  /\ isRecording = FALSE
  /\ recordedHits = <<>>
  /\ samplerRecordingStartTimeRef = AgeCap
  /\ audioBuffers = {}
  /\ padKeys = [i \in KeyPadIds |-> NoKey]
  /\ keyToPadMapRef = EmptyMap
  /\ recording = Null
  /\ isPlaying = FALSE
  /\ playbackPosition = Zero
  /\ recordingPosition = Zero
  /\ metronomeEnabled = FALSE
  /\ isCountingIn = FALSE
  /\ countInBar = 0
  /\ recordingStartTimeRef = AgeCap
  /\ countInTimeoutRef = 0
  /\ playbackIntervalRef = 0
  /\ playbackStartTimeRef = AgeCap
  /\ scheduledHitsRef = {}
  /\ recordingIntervalRef = 0
  /\ metronomeIntervalRef = 0
  /\ timers = {}
  /\ commands = 0
  /\ loops = 0
  /\ cycle = 0
  /\ click = "none"
  /\ triggered = -1
  /\ stopped = FALSE
  /\ cleared = FALSE
  /\ captured = 0
  /\ command = "none"
  /\ countInAge = AgeCap

\* The record button is clicked again and again within the same millisecond:
\* each click computes a length and arms a timer with it or stores it.
NextDuration == Record

SpecDuration == InitDuration /\ [][NextDuration]_vars

\* C19: the length of the window, as the delay of the auto-stop timeout and
\* as the duration of the Recording, is bars * 4 * 60000 / bpm, and the delay
\* of the count-in timeout is countInBars * 4 * 60000 / bpm, for every tempo
\* from 60 to 200; at 120 bpm and 8 bars the duration is 16000 ms.
C19_DurationFormula ==
  /\ \A t \in timers :
       /\ t.kind = "autoStop" => t.due = (bars * 4 * 60000) \div bpm
       /\ t.kind = "countInTimeout" => t.due = (countInBars * 4 * 60000) \div bpm
  /\ recording # Null =>
       /\ recording[1].duration.n * bpm = bars * 4 * 60000 * recording[1].duration.d
       /\ (bpm = 120 /\ bars = 8) =>
            recording[1].duration.n = 16000 * recording[1].duration.d
\* C19: a window of 8 bars at 120 bpm was recorded and is 16000 ms long
C19_Witness ==
  /\ recording # Null /\ bpm = 120 /\ bars = 8
  /\ DelayMs(recording[1].duration) = 16000

\* ---- uninterrupted playback of a take on two pads -----------------------
\* the user starts a playback and then leaves the transport alone
Play == ~isPlaying /\ PlaybackTimers = {} /\ PlayStop
\* the user records only while nothing is played
RecordTake == PlaybackTimers = {} /\ Record
PadHitLoop == PadHitOf(LoopPadIds)
LoadSoundLoop == LoadSoundOf(LoopPadIds)
AdvanceLoop == AdvanceBy(LoopDelays)

\* The metronome is off and there is no count-in, so their timers never exist.
NextLoop ==
  \/ RecordTake
  \/ Play
  \/ PadHitLoop
  \/ LoadSoundLoop
  \/ RecordingIntervalTick
  \/ AutoStopTimeout
  \/ HitTimeout
  \/ PlaybackIntervalTick
  \/ RestartTimeout
  \/ AdvanceLoop

SpecLoop == Init /\ [][NextLoop]_vars

HitTimers == {t \in timers : t.kind = "hit"}
\* the hits of the Recording on pad p at offset ms
HitsAt(p, ms) ==
  {i \in 1..Len(recording[1].hits) :
     recording[1].hits[i].padId = p /\ recording[1].hits[i].timestamp = ms}
AllHitsInside ==
  \A i \in 1..Len(recording[1].hits) :
    recording[1].hits[i].timestamp * recording[1].duration.d
      < recording[1].duration.n

\* C17: in a playback that nothing interrupts, every iteration schedules one
\* trigger per hit of the Recording, for the hit's pad and at the hit's offset
\* from the start of the iteration; a trigger plays exactly its pad at exactly
\* that offset, so the triggers come in the order of the offsets; nothing
\* else triggers a pad or removes a trigger, and when the iteration ends
\* every trigger has fired.
C17_OncePerHitInOrder ==
  [][/\ (~isPlaying /\ isPlaying') =>
          /\ playbackStartTimeRef' = 0
          /\ Cardinality(HitTimers') = Len(recording[1].hits)
          /\ \A i \in 1..Len(recording[1].hits) :
               LET hit == recording[1].hits[i]
               IN  Cardinality({t \in HitTimers' :
                                  t.n = hit.padId /\ t.due = hit.timestamp})
                     = Cardinality(HitsAt(hit.padId, hit.timestamp))
     /\ (isPlaying /\ HitTimeout) =>
          /\ Cardinality(HitTimers') = Cardinality(HitTimers) - 1
          /\ \E t \in HitTimers \ HitTimers' :
               t.due = 0 /\ triggered' = t.n
          /\ HitsAt(triggered', playbackStartTimeRef) # {}
     /\ triggered' # -1 => HitTimeout
     /\ (isPlaying /\ isPlaying') =>
          /\ Cardinality(HitTimers') <= Cardinality(HitTimers)
          /\ Cardinality(HitTimers') < Cardinality(HitTimers) => HitTimeout
     /\ (isPlaying /\ ~isPlaying' /\ AllHitsInside) => HitTimers = {}
    ]_vars
\* C17: the second iteration of the take (pad 0 at 0 ms, pad 1 at 500 ms) has
\* just triggered pad 1, 500 ms after it started
C17_Witness ==
  /\ isPlaying /\ loops = 1 /\ triggered = 1 /\ playbackStartTimeRef = 500
  /\ Len(recording[1].hits) = 2
  /\ recording[1].hits[1].padId = 0 /\ recording[1].hits[1].timestamp = 0
  /\ recording[1].hits[2].padId = 1 /\ recording[1].hits[2].timestamp = 500

\* C21: a play command given while recording or counting in changes nothing:
\* playback does not start, no timer is created or cancelled, and the flags,
\* the capture log, the clocks and the timer refs of the cycle under way stay
\* as they are.
C21_PlayWhileRecordingRejected ==
  [][(PlayStopCore /\ Mode \in {"Recording", "CountingIn"}) =>
       /\ ~isPlaying'
       /\ timers' = timers
       /\ UNCHANGED <<isRecording, isCountingIn, countInBar, recordedHits,
                      recording, recordingPosition, playbackPosition,
                      samplerRecordingStartTimeRef, recordingStartTimeRef,
                      countInAge, countInTimeoutRef, recordingIntervalRef,
                      metronomeIntervalRef, playbackIntervalRef,
                      scheduledHitsRef>>]_vars
\* C21: a play command has just been given during a capture with a hit in it
C21_Witness ==
  /\ command = "play" /\ isRecording /\ ~isPlaying
  /\ Len(recordedHits) > 0 /\ recordingIntervalRef # 0

\* ======================================================================
\* DrumMachine3D: pads, recorder and transport in one component.  bars is
\* fixed to 8 and countInBars to 1; isRecording is state of the component,
\* recordedHits is recordedHitsRef.current, and the hits take their offsets
\* from recordingStartTimeRef.  isCountingIn, countInBar, countInTimeoutRef
\* and samplerRecordingStartTimeRef have no counterpart and stay as mounted.
\* ======================================================================
\* playSound of the render in which isRecording was recFlag
playSound(recFlag, s, index) ==
  IF index \notin s.audioBuffers THEN s
  ELSE IF recFlag
       THEN [s EXCEPT !.recordedHits =
               Append(@, [padId |-> index,
                          timestamp |-> s.recordingStartTimeRef,
                          cyc |-> s.cycle]),
                      !.captured = @ + 1]
       ELSE s

startMetronome3D(e, s) == startMetronome(e, s)
stopMetronome3D(s) == stopMetronome(s)

\* handleRecord: the count-in has run, the capture begins; the timeout that
\* ends it is kept in no ref
countInDone3D(t, s) ==
  LET s1 == [expire(s, t) EXCEPT !.isRecording = TRUE,
                                 !.recordingStartTimeRef = 0,
                                 !.cycle = @ + 1]
      duration == calculateDuration(t.env.bars, t.env.bpm)
      pid == FreshId(s1)
      s2 == [setTimer(s1, Timer(pid, "recordingInterval", PollMs3D, PollMs3D, 0,
                [NoEnv EXCEPT !.bars = t.env.bars, !.bpm = t.env.bpm]))
               EXCEPT !.recordingIntervalRef = pid]
  IN  setTimer(s2, Timer(FreshId(s2), "autoStop", DelayMs(duration), 0,
                         s2.cycle,
                         [NoEnv EXCEPT !.bars = t.env.bars, !.bpm = t.env.bpm]))

\* handleRecord: the auto-stop callback
autoStop3D(t, s) ==
  LET s1 == stopMetronome3D([expire(s, t) EXCEPT !.isRecording = FALSE,
                                                 !.recordingPosition = Zero])
      s2 == IF s1.recordingIntervalRef # 0
            THEN [clearTimer(s1, s1.recordingIntervalRef)
                    EXCEPT !.recordingIntervalRef = 0]
            ELSE s1
      newRecording == [hits |-> s.recordedHits, bars |-> t.env.bars,
                       bpm |-> t.env.bpm,
                       duration |-> calculateDuration(t.env.bars, t.env.bpm)]
  IN  [s2 EXCEPT !.recording = Some(newRecording)]

handleRecord3D(e, s) ==
  IF e.isRecording
  THEN LET s1 == stopMetronome3D([s EXCEPT !.isRecording = FALSE,
                                           !.recordingPosition = Zero])
           s2 == IF s1.recordingIntervalRef # 0
                 THEN [clearTimer(s1, s1.recordingIntervalRef)
                         EXCEPT !.recordingIntervalRef = 0]
                 ELSE s1
           duration == calculateDuration(e.bars, e.bpm)
       IN  [s2 EXCEPT !.recording =
              Some([hits |-> s.recordedHits, bars |-> e.bars, bpm |-> e.bpm,
                    duration |-> duration])]
  ELSE LET s1 == [s EXCEPT !.recording = Null, !.isPlaying = FALSE,
                           !.recordedHits = <<>>, !.recordingPosition = Zero]
           s2 == IF e.metronomeEnabled THEN startMetronome3D(e, s1) ELSE s1
           countInDuration == calculateDuration(e.countInBars, e.bpm)
       IN  setTimer(s2, Timer(FreshId(s2), "countIn", DelayMs(countInDuration),
                              0, 0,
                              [NoEnv EXCEPT !.bars = e.bars, !.bpm = e.bpm]))

RECURSIVE scheduleHits3D(_, _, _, _)
scheduleHits3D(e, s, hits, i) ==
  IF i > Len(hits) THEN s
  ELSE LET timeoutId == FreshId(s)
           s1 == setTimer(s, Timer(timeoutId, "hit", hits[i].timestamp, 0,
                    hits[i].padId, [NoEnv EXCEPT !.isRecording = e.isRecording]))
       IN  scheduleHits3D(e, [s1 EXCEPT !.scheduledHitsRef = @ \cup {timeoutId}],
                          hits, i + 1)

startPlayback3D(e, s) ==
  IF e.recording = Null \/ Len(e.recording[1].hits) = 0 THEN s
  ELSE LET s1 == [s EXCEPT !.isPlaying = TRUE, !.playbackStartTimeRef = 0,
                           !.scheduledHitsRef = {}]
           s2 == IF e.metronomeEnabled THEN startMetronome3D(e, s1) ELSE s1
           s3 == scheduleHits3D(e, s2, e.recording[1].hits, 1)
           pid == FreshId(s3)
       IN  [setTimer(s3, Timer(pid, "playbackInterval", PollMs3D, PollMs3D, 0,
                                PlaybackEnv(e)))
              EXCEPT !.playbackIntervalRef = pid]

stopPlayback3D(s) == stopPlayback(s)

handlePlayStop3D(e, s) ==
  IF s.isPlaying THEN stopPlayback3D(s) ELSE startPlayback3D(e, s)

handleClear3D(s) ==
  LET s1 == stopMetronome3D(stopPlayback3D(s))
      s2 == [s1 EXCEPT !.recording = Null, !.recordedHits = <<>>,
                       !.isRecording = FALSE, !.playbackPosition = Zero,
                       !.recordingPosition = Zero]
  IN  IF s2.recordingIntervalRef # 0
      THEN [clearTimer(s2, s2.recordingIntervalRef) EXCEPT !.recordingIntervalRef = 0]
      ELSE s2

hitTimeout3D(t, s) ==
  LET s1 == playSound(t.env.isRecording, [expire(s, t) EXCEPT !.triggered = t.n], t.n)
  IN  [s1 EXCEPT !.scheduledHitsRef = @ \ {t.id}]

playbackPoll3D(t, s, elapsed) ==
  LET position == Position(elapsed, t.env.recording[1].duration)
      s1 == [s EXCEPT !.playbackPosition = position]
  IN  IF position = One
      THEN LET s2 == stopPlayback3D(s1)
           IN  setTimer(s2, Timer(FreshId(s2), "restart", RestartDelayMs, 0, 0, t.env))
      ELSE s1

restartTimeout3D(t, s) == startPlayback3D(t.env, expire(s, t))

\* the component as mounted: metronome on, one bar of count-in
Init3D ==
  /\ isRecording = FALSE
  /\ recordedHits = <<>>
  /\ samplerRecordingStartTimeRef = AgeCap
  /\ audioBuffers = {}
  /\ padKeys = [i \in KeyPadIds |-> NoKey]
  /\ keyToPadMapRef = EmptyMap
  /\ bpm = 120
  /\ bars = 8
  /\ recording = Null
  /\ isPlaying = FALSE
  /\ playbackPosition = Zero
  /\ recordingPosition = Zero
  /\ metronomeEnabled = TRUE
  /\ countInBars = 1
  /\ isCountingIn = FALSE
  /\ countInBar = 0
  /\ recordingStartTimeRef = AgeCap
  /\ countInTimeoutRef = 0
  /\ playbackIntervalRef = 0
  /\ playbackStartTimeRef = AgeCap
  /\ scheduledHitsRef = {}
  /\ recordingIntervalRef = 0
  /\ metronomeIntervalRef = 0
  /\ timers = {}
  /\ commands = 0
  /\ loops = 0
  /\ cycle = 0
  /\ click = "none"
  /\ triggered = -1
  /\ stopped = FALSE
  /\ cleared = FALSE
  /\ captured = 0
  /\ command = "none"
  /\ countInAge = AgeCap

\* the `disabled` attributes of the three buttons
RecordDisabled3D == isPlaying
PlayDisabled3D ==
  isRecording \/ recording = Null \/ Len(recording[1].hits) = 0
ClearDisabled3D == isRecording \/ isPlaying

Record3D ==
  /\ NoTimerDue /\ ~RecordDisabled3D /\ commands < MaxCommands
  /\ Apply([handleRecord3D(Env(State), BeginCommand) EXCEPT !.command = "record"])

PlayStop3D ==
  /\ NoTimerDue /\ ~PlayDisabled3D /\ commands < MaxCommands
  /\ Apply([handlePlayStop3D(Env(State), BeginCommand)
              EXCEPT !.stopped = isPlaying,
                     !.cleared = IF isPlaying THEN @ ELSE FALSE,
                     !.command = IF isPlaying THEN "stop" ELSE "play"])

Clear3D ==
  /\ NoTimerDue /\ ~ClearDisabled3D /\ commands < MaxCommands
  /\ Apply([handleClear3D(BeginCommand) EXCEPT !.cleared = TRUE,
                                               !.command = "clear"])

PadHit3D ==
  \E index \in PadIds :
    /\ isRecording => captured < MaxHits
    /\ Apply(playSound(isRecording, Begin, index))

\* loadSounds: all buffers are stored at once, before the first operation
LoadSounds3D ==
  /\ commands = 0 /\ audioBuffers = {}
  /\ Apply([Begin EXCEPT !.audioBuffers = PadIds])

CountInDone3D ==
  \E t \in Due("countIn") : Apply(countInDone3D(t, Begin))

AutoStopTimeout3D ==
  \E t \in Due("autoStop") : Apply(autoStop3D(t, Begin))

HitTimeout3D ==
  \E t \in Due("hit") : Apply(hitTimeout3D(t, Begin))

PlaybackIntervalTick3D ==
  \E t \in Due("playbackInterval") :
    Apply(playbackPoll3D(t, rearm(Begin, t), playbackStartTimeRef))

RestartTimeout3D ==
  \E t \in Due("restart") :
    /\ loops < MaxLoops
    /\ Apply(restartTimeout3D(t, [Begin EXCEPT !.loops = @ + 1]))

Advance3D == AdvanceBy(Delays3D)

Next3D ==
  \/ Record3D
  \/ PlayStop3D
  \/ Clear3D
  \/ PadHit3D
  \/ LoadSounds3D
  \/ MetronomeTick
  \/ CountInDone3D
  \/ RecordingIntervalTick
  \/ AutoStopTimeout3D
  \/ HitTimeout3D
  \/ PlaybackIntervalTick3D
  \/ RestartTimeout3D
  \/ Advance3D

Spec3D == Init3D /\ [][Next3D]_vars

\* the auto-stop timeouts that run in the step
AutoStopsRun == {t \in Due("autoStop") : t \notin timers'}

\* C22: in DrumMachine3D a Recording is set only when a capture stops, by the
\* stop itself: by the record command that stops it or by the auto-stop
\* timeout of that very capture.  An auto-stop timeout that runs when its
\* capture has been stopped already changes neither the Recording nor the
\* metronome nor the capture under way.
C22_RecordingCreatedOnce ==
  [][/\ (AutoStopTimeout3D /\ ~isRecording) =>
          recording' = recording /\ Metronomes' = Metronomes
     /\ (AutoStopTimeout3D /\ isRecording) => \A t \in AutoStopsRun : t.n = cycle
     /\ (recording' # recording /\ recording' # Null) =>
          isRecording /\ (Record3D \/ AutoStopTimeout3D)]_vars

\* ---- playback left to loop without end ----------------------------------
\* the restart timeout, the iterations not being counted
RestartForever ==
  \E t \in Due("restart") : Apply(restartTimeout(t, Begin))
\* a record click in the millisecond in which a timer is due, nothing being
\* played
RecordTakeOverdue == PlaybackTimers = {} /\ RecordOverdue

NextLive ==
  \/ RecordTake
  \/ RecordTakeOverdue
  \/ Play
  \/ PadHit
  \/ LoadSound
  \/ RecordingIntervalTick
  \/ AutoStopTimeout
  \/ HitTimeout
  \/ PlaybackIntervalTick
  \/ RestartForever
  \/ AdvanceLoop

\* the event loop: a timer that is due is run, otherwise time passes
EventLoop ==
  \/ RecordingIntervalTick
  \/ AutoStopTimeout
  \/ HitTimeout
  \/ PlaybackIntervalTick
  \/ AdvanceLoop

\* The event loop never halts: it goes on running due timers and letting time
\* pass, and a restart timeout that is due does not stay due for ever.
SpecLive ==
  /\ Init
  /\ [][NextLive]_vars
  /\ WF_vars(EventLoop)
  /\ []<>(Due("restart") = {})

IterationStarted ==
  /\ isPlaying /\ playbackStartTimeRef = 0
  /\ Cardinality(HitTimers) = Len(recording[1].hits)
IterationEnded == ~isPlaying /\ \E t \in timers : t.kind = "restart"
\* the last pending trigger of the iteration has just fired
LastHitFired == isPlaying /\ triggered # -1 /\ HitTimers = {}

\* C23: a playback that has been started and is left alone goes on for ever:
\* an iteration that has started fires its hits to the last and then ends, and
\* an iteration that has ended is followed by the start of the next.
C23_LoopsForever ==
  /\ IterationStarted ~> LastHitFired
  /\ LastHitFired ~> IterationEnded
  /\ IterationEnded ~> IterationStarted

\* ---- key assignment in the Sampler ---------------------------------------
\* PadComponent: "Set Key" on a pad that has a sound, then a key pressed
KeyAssign ==
  \E id \in KeyPadIds \cap audioBuffers, key \in Keys :
    /\ commands < MaxCommands
    /\ Apply(handleKeyAssign(BeginCommand, id, key))

\* the default sounds are fetched one after the other while the page is in use
LoadNextSound ==
  \E i \in KeyPadIds :
    /\ i \notin audioBuffers
    /\ \A j \in KeyPadIds : j < i => j \in audioBuffers
    /\ Apply(loadDefaultSound(Begin, i))

NextKeys == KeyAssign \/ LoadNextSound

SpecKeys == Init /\ [][NextKeys]_vars

\* C24: no two pads hold the same key, and the key-to-pad map holds exactly
\* the keys the pads hold, each sent to the pad that holds it.
C24_KeysUnique ==
  /\ \A p, q \in KeyPadIds :
       (p # q /\ padKeys[p] # NoKey) => padKeys[p] # padKeys[q]
  /\ \A k \in DOMAIN keyToPadMapRef : padKeys[keyToPadMapRef[k]] = k
  /\ \A p \in KeyPadIds :
       padKeys[p] # NoKey =>
         /\ padKeys[p] \in DOMAIN keyToPadMapRef
         /\ keyToPadMapRef[padKeys[p]] = p

\* C25: an iteration that starts takes the clock as its anchor (the anchor is
\* 0 ms old, however long ago the iteration before it started); as long as it
\* runs every pending trigger is due at anchor + offset of a hit of its pad,
\* and the position shown is the time from the anchor to the last poll over
\* the duration.
C25_AnchoredAtIterationStart ==
  [][/\ (~isPlaying /\ isPlaying') => playbackStartTimeRef' = 0
     /\ isPlaying' =>
          \A t \in HitTimers' :
            \E i \in 1..Len(recording'[1].hits) :
              /\ recording'[1].hits[i].padId = t.n
              /\ recording'[1].hits[i].timestamp = playbackStartTimeRef' + t.due
     /\ isPlaying' =>
          \A t \in {u \in timers' : u.kind = "playbackInterval"} :
            LET lastPoll == playbackStartTimeRef' - (t.period - t.due)
            IN  playbackPosition' =
                  IF lastPoll < t.period THEN Zero
                  ELSE Position(lastPoll, recording'[1].duration)
    ]_vars
\* C25: the third iteration has just started, with its anchor at the clock
C25_Witness ==
  /\ isPlaying /\ loops = 2 /\ playbackStartTimeRef = 0
  /\ Cardinality(HitTimers) = 2

Restarts == {t \in timers : t.kind = "restart"}
PlaybackPolls == {t \in timers : t.kind = "playbackInterval"}

\* C26: the poll that observes the end of the iteration leaves no trigger, no
\* position poll and no metronome pending and sets exactly one restart
\* timeout, due 50 ms later; that timeout starts the next iteration; and
\* there is never more than one restart timeout pending.
C26_LoopEndHandledOnce ==
  [][/\ (PlaybackIntervalTick /\ NewRestarts # {}) =>
          /\ HitTimers' = {} /\ PlaybackPolls' = {} /\ Metronomes' = {}
          /\ Cardinality(NewRestarts) = 1
          /\ \A t \in NewRestarts : t.due = RestartDelayMs
     /\ RestartTimeout => isPlaying'
     /\ Cardinality(Restarts') <= 1
    ]_vars

\* C27: a stop command during playback leaves the position at 0, no position
\* poll and playbackIntervalRef null, no trigger pending and the scheduled
\* set empty, no metronome interval; the Recording and the settings are as
\* they were.
C27_StopLeavesNothingRunning ==
  [][(PlayStop /\ isPlaying) =>
       /\ playbackPosition' = Zero
       /\ playbackIntervalRef' = 0 /\ PlaybackPolls' = {}
       /\ scheduledHitsRef' = {} /\ HitTimers' = {}
       /\ metronomeIntervalRef' = 0 /\ Metronomes' = {}
       /\ UNCHANGED <<recording, bpm, bars, metronomeEnabled, countInBars>>
    ]_vars

\* C28: every pending trigger is listed in scheduledHitsRef and the only
\* pending position poll is the one held in playbackIntervalRef; so there are
\* never more triggers pending than the Recording has hits, and never two
\* position polls.
C28_PlaybackTimersTracked ==
  /\ \A t \in HitTimers : t.id \in scheduledHitsRef
  /\ \A t \in PlaybackPolls : t.id = playbackIntervalRef
  /\ Cardinality(HitTimers)
       <= (IF recording = Null THEN 0 ELSE Len(recording[1].hits))
  /\ Cardinality(PlaybackPolls) <= 1

\* ---- the metronome, beat by beat ----------------------------------------
\* The user pauses for one beat at a time, so that single beats of the
\* metronome are steps of their own.
AdvanceBeat == AdvanceBy(BeatDelays)

\* No count-in: the metronome starts with the capture or with the playback.
NextMetronome ==
  \/ SetMetronomeEnabled
  \/ Record
  \/ PlayStop
  \/ PadHit
  \/ LoadSound
  \/ MetronomeTick
  \/ RecordingIntervalTick
  \/ AutoStopTimeout
  \/ HitTimeout
  \/ PlaybackIntervalTick
  \/ RestartTimeout
  \/ AdvanceBeat

SpecMetronome == Init /\ [][NextMetronome]_vars

\* the time since the metronome that is running was started
MetronomeAge == IF isRecording THEN recordingStartTimeRef ELSE playbackStartTimeRef

\* C29: the click made when the metronome starts is a downbeat; the interval
\* clicks come 60000/bpm ms apart, and the k-th of them is a downbeat exactly
\* when k is a multiple of 4. The number k of a click is taken from the time
\* since the start of the timeline, for the metronome held in
\* metronomeIntervalRef while a single capture or a single playback runs: it
\* is then the metronome which that timeline started.
C29_EveryFourthClickIsDownbeat ==
  [][/\ (Record /\ Idle /\ metronomeEnabled) => click' = "downbeat"
     /\ (PlayStop /\ ~isPlaying /\ isPlaying' /\ metronomeEnabled) =>
          click' = "downbeat"
     /\ MetronomeTick =>
          \A t \in Due("metronome") :
            /\ t.period * bpm = 60000
            /\ (/\ t.id = metronomeIntervalRef
                /\ ~(isRecording /\ isPlaying)
                /\ Cardinality(PlaybackPolls) <= 1) =>
                 /\ MetronomeAge % t.period = 0
                 /\ click' = IF (MetronomeAge \div t.period) % 4 = 0
                             THEN "downbeat" ELSE "beat"
    ]_vars
\* C29: the third interval click of a capture has just sounded, and it is
\* no downbeat
C29_Witness ==
  /\ isRecording /\ click = "beat" /\ recordingStartTimeRef = 1500
  /\ Cardinality(Metronomes) = 1

\* ---- the position shown while recording ---------------------------------
\* a faulty getCurrentBarAndBeat, which C30 rules out: the beat counted from 0
getCurrentBarAndBeatFromZero(position) ==
  LET totalBeats == bars * 4
      currentBeat == (position.n * totalBeats) \div position.d
  IN  [bar |-> (currentBeat \div 4) + 1, beat |-> currentBeat % 4]

\* Math.floor of the rational position times the number of beats
getCurrentBarAndBeat(position) ==
  LET totalBeats == bars * 4
      currentBeat == (position.n * totalBeats) \div position.d
  IN  [bar |-> (currentBeat \div 4) + 1, beat |-> (currentBeat % 4) + 1]

currentPosition ==
  IF isRecording THEN recordingPosition
  ELSE IF isPlaying THEN playbackPosition ELSE Zero
BarAndBeat ==
  IF isRecording \/ isPlaying THEN getCurrentBarAndBeat(currentPosition)
  ELSE [bar |-> 1, beat |-> 1]

\* The recorder mounted with any tempo from 120 bpm up and either length,
\* without count-in; the user records, pausing now and then.
InitPosition ==
  /\ InitDuration
  /\ bpm \in PositionBpmSet
  /\ countInBars = 0
AdvancePosition == AdvanceBy(PositionDelays)

NextPosition ==
  \/ Record
  \/ RecordingIntervalTick
  \/ AutoStopTimeout
  \/ AdvancePosition

SpecPosition == InitPosition /\ [][NextPosition]_vars

RecordingPolls == {t \in timers : t.kind = "recordingInterval"}

\* C30: the fraction shown is min(elapsed / total, 1) for the elapsed time of
\* the last poll, and lies in [0, 1]; the beat index is the floor of fraction
\* times bars * 4; bar is the floor of beat index / 4, plus 1, and is at
\* least 1; beat is beat index mod 4, plus 1, and lies in 1..4.
C30_PositionBarAndBeat ==
  /\ 0 <= currentPosition.n /\ currentPosition.n <= currentPosition.d
  /\ isRecording =>
       \A t \in RecordingPolls :
         LET elapsed == recordingStartTimeRef - (t.period - t.due)
             total == calculateDuration(bars, bpm)
         IN  elapsed >= t.period =>
               IF elapsed * total.d >= total.n
               THEN currentPosition.n = currentPosition.d
               ELSE /\ currentPosition.n = elapsed * total.d
                    /\ currentPosition.d = total.n
  /\ \E beatIndex \in 0..(bars * 4) :
       /\ beatIndex * currentPosition.d <= currentPosition.n * bars * 4
       /\ currentPosition.n * bars * 4 < (beatIndex + 1) * currentPosition.d
       /\ (BarAndBeat.bar - 1) * 4 + (BarAndBeat.beat - 1) = beatIndex
       /\ BarAndBeat.bar >= 1
       /\ BarAndBeat.beat \in 1..4
\* C30: 4000 ms into a capture of 8 bars at 120 bpm: bar 3, beat 1
C30_Witness ==
  /\ isRecording /\ bpm = 120 /\ bars = 8 /\ recordingStartTimeRef = 4000
  /\ recordingPosition.n * 4 = recordingPosition.d
  /\ BarAndBeat.bar = 3 /\ BarAndBeat.beat = 1

\* ---- the count-in, beat by beat ------------------------------------------
\* The recorder mounted at 8 bars with a count-in of one or two bars, at a
\* tempo whose beat is a whole number of ms (120) or is not (90).
InitCountIn ==
  /\ InitDuration
  /\ bpm \in CountInBpmSet
  /\ bars = 8
  /\ countInBars > 0

\* The user records, cancels and records again, pausing a beat at a time.
NextCountIn ==
  \/ SetMetronomeEnabled
  \/ Record
  \/ PadHit
  \/ LoadSound
  \/ MetronomeTick
  \/ BarIntervalTick
  \/ CountInTimeout
  \/ RecordingIntervalTick
  \/ AutoStopTimeout
  \/ AdvanceBeat

SpecCountIn == InitCountIn /\ [][NextCountIn]_vars

\* the number of whole bars in ms milliseconds
WholeBars(ms) == (ms * bpm) \div (4 * 60000)

\* C31: while the count-in runs, once the timers that are due have run, the
\* bar shown lies in 1..countInBars and is 1 plus the number of whole bars
\* since this count-in began (at a tempo at which a bar is a whole number of
\* ms, so that the timers fall on the bar lines).
C31_CountInBarShown ==
  (isCountingIn /\ NoTimerDue /\ (4 * 60000) % bpm = 0) =>
    /\ countInBar \in 1..countInBars
    /\ countInBar = 1 + WholeBars(countInAge)

\* the timers created by the step
NewTimers == timers' \ timers

\* C32: without count-in a record command given in Idle mode starts the
\* capture at once: the mode is Recording and not CountingIn, no count-in
\* timeout and no bar-advance interval is created, the capture log is empty,
\* the clocks of the capture start at the command, and the auto-stop timeout
\* is due one window length after the command.
C32_NoCountInBypassed ==
  [][(Record /\ Idle /\ countInBars = 0) =>
       /\ isRecording' /\ ~isCountingIn' /\ ~isPlaying'
       /\ \A t \in NewTimers : t.kind \notin {"countInTimeout", "barInterval"}
       /\ countInTimeoutRef' = countInTimeoutRef
       /\ recordedHits' = <<>>
       /\ samplerRecordingStartTimeRef' = 0 /\ recordingStartTimeRef' = 0
       /\ \E t \in NewTimers :
            t.kind = "autoStop" /\ t.due = (bars * 4 * 60000) \div bpm
       /\ Cardinality({t \in NewTimers : t.kind = "autoStop"}) = 1
    ]_vars
\* C32: a second cycle has just begun by a record command, without count-in,
\* with the hit of the first cycle discarded
C32_Witness ==
  /\ command = "record" /\ isRecording /\ ~isCountingIn /\ countInBars = 0
  /\ cycle = 2 /\ captured = 1 /\ recordedHits = <<>>
  /\ recordingStartTimeRef = 0

\* a metronome clicks a downbeat at this instant: it is due with its fourth
\* beat, or it has just clicked it or been started
DownbeatNow ==
  \E t \in Metronomes :
    \/ t.due = 0 /\ (t.n + 1) % BeatsPerBar = 0
    \/ t.due = t.period /\ t.n = 0

\* C33: during a count-in with the metronome on, a bar-advance callback and
\* the count-in timeout run at an instant at which the metronome clicks a
\* downbeat.
C33_BarLinesOnDownbeats ==
  [][(isCountingIn /\ metronomeEnabled /\ (BarIntervalTick \/ CountInTimeout))
       => DownbeatNow]_vars

\* C34: the capture log is empty as long as the count-in runs, and while the
\* capture runs it holds hits of this cycle only.
C34_LogClearedWhenCycleBegins ==
  /\ isCountingIn => recordedHits = <<>>
  /\ isRecording => \A i \in 1..Len(recordedHits) : recordedHits[i].cyc = cycle

\* ---- DrumMachine3D, count-in and capture beat by beat --------------------
\* The user records and clears, pausing a beat at a time; nothing is played.
Next3DBeat ==
  \/ Record3D
  \/ Clear3D
  \/ PadHit3D
  \/ LoadSounds3D
  \/ MetronomeTick
  \/ CountInDone3D
  \/ RecordingIntervalTick
  \/ AutoStopTimeout3D
  \/ AdvanceBeat

Spec3DBeat == Init3D /\ [][Next3DBeat]_vars

\* the offsets of the hits of a log do not decrease
NonDecreasing(hits) ==
  \A i \in 1..(Len(hits) - 1) : hits[i].timestamp <= hits[i + 1].timestamp

\* C35: the hits are in the capture log in the order in which they were
\* made: the offsets in the log, and in the Recording made from it, do not
\* decrease from one hit to the next.
C35_AppendedInOrder ==
  /\ NonDecreasing(recordedHits)
  /\ recording # Null => NonDecreasing(recording[1].hits)

CountIns3D == {t \in timers : t.kind = "countIn"}
AutoStops == {t \in timers : t.kind = "autoStop"}

\* C36: in DrumMachine3D a record or clear command given while the count-in
\* runs cancels it, so that no count-in timeout is pending afterwards; and
\* there is never more than one count-in timeout, one auto-stop timeout or
\* one metronome interval pending.
C36_OneCycle3D ==
  [][/\ ((Record3D \/ Clear3D) /\ CountIns3D # {} /\ ~isRecording) =>
          CountIns3D' = {}
     /\ Cardinality(CountIns3D') <= 1
     /\ Cardinality(AutoStops') <= 1
     /\ Cardinality(Metronomes') <= 1
    ]_vars

\* ---- recording cycles left to run out -------------------------------------
\* The recorder mounted at 8 bars with any count-in, the metronome off.
InitCycle ==
  /\ InitDuration
  /\ bpm \in CountInBpmSet
  /\ bars = 8

\* the user clicks record in Idle mode only, and never stops a cycle
RecordIdle == Idle /\ Record

NextCycle ==
  \/ RecordIdle
  \/ PadHit
  \/ LoadSound
  \/ BarIntervalTick
  \/ CountInTimeout
  \/ RecordingIntervalTick
  \/ AutoStopTimeout
  \/ AdvanceBeat

\* the event loop of a cycle: a timer that is due is run, otherwise time passes
CycleLoop ==
  \/ BarIntervalTick
  \/ RecordingIntervalTick
  \/ AutoStopTimeout
  \/ AdvanceBeat

\* The event loop never halts, and a count-in timeout that is due does not
\* stay due for ever.
SpecCycle ==
  /\ InitCycle
  /\ [][NextCycle]_vars
  /\ WF_vars(CycleLoop)
  /\ []<>(Due("countInTimeout") = {})

\* C37: a cycle that is left alone runs out: a count-in is followed by the
\* capture, and the capture by Idle mode with no position poll and no
\* auto-stop timeout pending.
C37_CycleRunsOut ==
  /\ isCountingIn ~> isRecording
  /\ isRecording ~> (Idle /\ RecordingPolls = {} /\ AutoStops = {})
\* C37: a cycle with a count-in of two bars has run out and left no timer
C37_Witness ==
  /\ Idle /\ cycle = 1 /\ countInBars = 2 /\ timers = {}
  /\ command = "none" /\ recordingIntervalRef = 0

\* C38: a metronome interval started together with a playback iteration has
\* the beat of the Recording that is played as its period,
\* 60000 / recording.bpm ms.
C38_PlaybackMetronomeAtRecordedTempo ==
  [][((PlayStop \/ RestartTimeout) /\ isPlaying' /\ recording' # Null) =>
       \A t \in NewTimers :
         t.kind = "metronome" => t.period = 60000 \div recording'[1].bpm]_vars

\* C39: while the count-in or the capture runs there is no Recording; a
\* record command given in Idle mode discards the Recording, and a Recording
\* is set only by the step that ends a capture.
C39_NoRecordingDuringCycle ==
  [][/\ (isRecording' \/ isCountingIn') => recording' = Null
     /\ (Record /\ Idle) => recording' = Null
     /\ (recording' # Null /\ recording' # recording) =>
          (isRecording /\ ~isRecording')
    ]_vars
\* C39: a second cycle, begun with a count-in, is capturing, and there is no
\* Recording
C39_Witness ==
  /\ isRecording /\ cycle = 2 /\ countInBars > 0 /\ captured > 0
  /\ recording = Null /\ command = "none"

\* the number of bars of the timeline that runs
ActiveBars ==
  IF ~isRecording /\ isPlaying /\ recording # Null THEN recording[1].bars
  ELSE bars

\* C40: while recording or playing, the bar shown lies in 1..bars of the
\* timeline that runs.
C40_BarWithinTimeline ==
  (isRecording \/ isPlaying) => BarAndBeat.bar \in 1..ActiveBars

====
